---- MODULE Spec2Model ----
(***************************************************************************)
(* Lifeguard: the temporary voice-lobby session manager                    *)
(* (src/src/lifeguard/modules/voice_lobby/cog.py, VoiceLobbyCog).          *)
(*                                                                         *)
(* The cog keeps one dict, _sessions_by_voice_id, and mutates it from      *)
(* coroutines that the event loop interleaves at their awaited transport   *)
(* calls.  Every coroutine invocation is a record of the bag `tasks`: its  *)
(* arguments, the call it is suspended at (pc)                             *)
(* and a log of what the invocation has done so far.  An awaited call is   *)
(* one step: the platform carries it out (or refuses it) and the coroutine *)
(* runs on to its next awaited call; between the moment a coroutine        *)
(* suspends and that step, other coroutines and the environment may run.   *)
(***************************************************************************)
EXTENDS Integers, Sequences, FiniteSets, Bags, TLC

\* ------------------------------------------------------------ bounds
\* Temporary channels the platform will create in one behaviour.
MaxLobbies == 2
\* Events and panel interactions that may be pending at once.
MaxTasks == 2
\* Events and panel interactions the environment produces in one behaviour
\* (not bounded under SpecSerial).
MaxEvents == 4

\* ------------------------------------------------------------ values
\* Python's None for a channel (after.channel is None) or a channel id.
None == 0
\* The id of the guild's entry voice channel.
EntryChannel == 1
\* Ids of the channels create_voice_channel hands out (never reused).
FirstLobbyId == EntryChannel + 1
LastLobbyId == EntryChannel + MaxLobbies
LobbyIds == FirstLobbyId..LastLobbyId

GuildId == "g"
Humans == {"m1", "m2"}
Bots == {"b1"}
Members == Humans \cup Bots
NoOwner == "nobody"

\* member.bot
IsBot(m) == m \in Bots
\* {role.id for role in member.roles}
RolesOf(m) == IF m = "m1" THEN {"R"} ELSE {}
\* member.display_name, as a sequence of characters
DisplayName(m) == IF m = "m1" THEN <<"A">> ELSE IF m = "m2" THEN <<"B">> ELSE <<"Z">>

Min(a, b) == IF a < b THEN a ELSE b
Max(a, b) == IF a > b THEN a ELSE b

\* ------------------------------------------------------------ state
VARIABLES
    cfg,        \* the guild's VoiceLobbyConfig document (repo.get_config)
    mode,       \* how the loop schedules: "interleaved", "serial" or "panel"
    loc,        \* member -> voice channel id or None (the guild's voice states)
    channels,   \* existing temporary channel id -> [name, user_limit]
    nextId,     \* the id the next created channel gets
    sessions,   \* _sessions_by_voice_id: records in insertion order
    tasks,      \* bag of coroutine invocations
    pre,        \* under serial dispatch: the state the running invocation started in
    overlap,    \* members for whom two creation sequences were in flight at once
    events,     \* environment steps taken so far (when counted)
    message,        \* _parse_and_replace_times: the message text
    results,        \* what search_dates returned: the matched texts, in order
    recognized,     \* where in the message the search recognized each of them
    unparsable,     \* the clean texts dateparser.parse returns None for
    next_match,     \* index of the match the loop of line 131 handles next
    search_offset,  \* line 129
    replacements,   \* line 120
    located,        \* per handled match: what the iteration found and did
    result,         \* the returned string, NotReturned until then
    fn_args,        \* a helper of the cog called on its own: its arguments
    fn_result       \* and what the call gave, NotCalled until then

lobby == <<cfg, mode, loc, channels, nextId, sessions, tasks, pre, overlap, events>>
parser == <<message, results, recognized, unparsable, next_match, search_offset,
            replacements, located, result>>
helper == <<fn_args, fn_result>>
vars == <<lobby, parser, helper>>

\* ------------------------------------------------------------ config
\* VoiceLobbyConfig (config.py); NoConfig is repo.get_config returning None.
NoConfig ==
    [exists |-> FALSE, enabled |-> FALSE, entry_voice_channel_id |-> None,
     creator_role_ids |-> {}, join_role_ids |-> {}, default_user_limit |-> 0]

Configs ==
    {NoConfig} \cup
    [exists : {TRUE}, enabled : BOOLEAN, entry_voice_channel_id : {None, EntryChannel},
     creator_role_ids : {{}, {"R"}}, join_role_ids : {{}, {"R"}},
     default_user_limit : {0}]

\* ------------------------------------------------------------ names
Whitespace == {" "}
DefaultName == <<"L", "o", "b", "b", "y">>
\* normalized[:100]
NameMaxLen == 100

\* name.strip().split(): the maximal runs of non-whitespace characters, left
\* to right
SplitWords(s) ==
    LET starts == {i \in 1..Len(s) :
                      s[i] \notin Whitespace /\ (i = 1 \/ s[i - 1] \in Whitespace)}
        start(k) == CHOOSE i \in starts : Cardinality({j \in starts : j <= i}) = k
        stops(i) == {j \in i..Len(s) : j = Len(s) \/ s[j + 1] \in Whitespace}
        stop(i) == CHOOSE j \in stops(i) : \A e \in stops(i) : j <= e
    IN  [k \in 1..Cardinality(starts) |-> SubSeq(s, start(k), stop(start(k)))]

\* " ".join(words)
RECURSIVE JoinWords(_)
JoinWords(ws) ==
    IF ws = <<>> THEN <<>>
    ELSE IF Len(ws) = 1 THEN ws[1]
    ELSE ws[1] \o <<" ">> \o JoinWords(Tail(ws))

\* VoiceLobbyCog._sanitize_channel_name
SanitizeChannelName(name) ==
    LET normalized == JoinWords(SplitWords(name))
    IN  IF normalized = <<>> THEN DefaultName
        ELSE SubSeq(normalized, 1, Min(Len(normalized), NameMaxLen))

\* VoiceLobbyCog._format_lobby_name with the default template "Lobby - {owner}"
FormatLobbyName(m) ==
    SanitizeChannelName(DefaultName \o <<" ", "-", " ">> \o DisplayName(m))

\* ------------------------------------------------------------ policies
\* VoiceLobbyCog._member_has_any_role
MemberHasAnyRole(m, role_ids) ==
    IF role_ids = {} THEN FALSE ELSE (RolesOf(m) \cap role_ids) # {}

\* Faulty variant of CanCreateLobby: an empty creator list admits nobody.
CanCreateLobbyNoEmptyRule(m, config) ==
    MemberHasAnyRole(m, config.creator_role_ids)

\* VoiceLobbyCog._can_create_lobby
CanCreateLobby(m, config) ==
    IF config.creator_role_ids = {} THEN TRUE
    ELSE MemberHasAnyRole(m, config.creator_role_ids)

\* Faulty variant of CanJoinLobby: the owner is treated like everybody else.
CanJoinLobbyNoOwnerRule(m, owner_id, config) ==
    IF config.join_role_ids = {} THEN TRUE
    ELSE MemberHasAnyRole(m, config.join_role_ids)

\* VoiceLobbyCog._can_join_lobby
CanJoinLobby(m, owner_id, config) ==
    IF m = owner_id THEN TRUE
    ELSE IF config.join_role_ids = {} THEN TRUE
    ELSE MemberHasAnyRole(m, config.join_role_ids)

\* ------------------------------------------------------------ session map
NoSession == [guild_id |-> GuildId, owner_id |-> NoOwner, voice_channel_id |-> None]

SessionKeys(s) == {s[i].voice_channel_id : i \in DOMAIN s}
HasSession(s, ch) == ch \in SessionKeys(s)
\* dict.get(voice_channel_id)
SessionGet(s, ch) ==
    IF HasSession(s, ch) THEN s[CHOOSE i \in DOMAIN s : s[i].voice_channel_id = ch]
    ELSE NoSession
\* Faulty variant of SessionPop: the record is left in the map.
SessionPopKeeps(s, ch) == s
\* dict.pop(voice_channel_id, None)
SessionPop(s, ch) == SelectSeq(s, LAMBDA x : x.voice_channel_id # ch)
\* self._sessions_by_voice_id[voice_channel.id] = _LobbySession(...)
SessionPut(s, g, owner, ch) ==
    Append(SessionPop(s, ch), [guild_id |-> g, owner_id |-> owner, voice_channel_id |-> ch])

\* Faulty variant of FindSessionByOwner: the scan finds nothing.
FindSessionByOwnerBlind(s, g, owner) == NoSession

\* Faulty variant of FindSessionByOwner: the owner id is compared with the
\* session's guild id, so no session is ever found.
FindSessionByOwnerWrongField(s, g, owner) ==
    LET idx == {i \in DOMAIN s : s[i].guild_id = g /\ s[i].guild_id = owner}
    IN  IF idx = {} THEN NoSession
        ELSE s[CHOOSE i \in idx : \A j \in idx : i <= j]

\* Faulty variant of FindSessionByOwner: the comparison of the owner id is
\* negated, so the scan finds the sessions of the other members.
FindSessionByOwnerOthers(s, g, owner) ==
    LET idx == {i \in DOMAIN s : s[i].guild_id = g /\ s[i].owner_id # owner}
    IN  IF idx = {} THEN NoSession
        ELSE s[CHOOSE i \in idx : \A j \in idx : i <= j]

\* VoiceLobbyCog._find_session_by_owner: the first match in insertion order
FindSessionByOwner(s, g, owner) ==
    LET idx == {i \in DOMAIN s : s[i].guild_id = g /\ s[i].owner_id = owner}
    IN  IF idx = {} THEN NoSession
        ELSE s[CHOOSE i \in idx : \A j \in idx : i <= j]

\* VoiceLobbyCog._get_lobby_owner
GetLobbyOwner(s, ch) == SessionGet(s, ch).owner_id

SessionsOf(s, owner) == {i \in DOMAIN s : s[i].guild_id = GuildId /\ s[i].owner_id = owner}

\* ------------------------------------------------------------ platform
Chans == DOMAIN channels
\* voice_channel.members (bots included)
MembersIn(ch) == {m \in Members : loc[m] = ch}

\* ------------------------------------------------------------ invocations
NoMove == 0 - 1

NewTask(kind, user, before, after, ch, name, limit) ==
    [kind |-> kind, user |-> user, before |-> before, after |-> after,
     ch |-> ch, name |-> name, limit |-> limit,
     pc |-> "start",
     \* locals: lobby_name / safe_name
     safe_name |-> <<>>,
     \* the log: the channel created, the target of the move_to issued, the
     \* channel whose delete was issued, the calls that raised, the last call
     \* awaited, and how the invocation ended
     made |-> None, moveTo |-> NoMove, delReq |-> None,
     failed |-> {}, at |-> "start", outcome |-> "running"]

VoiceEvent(m, before, after) == NewTask("voice", m, before, after, None, <<>>, 0)

TaskSet == BagToSet(tasks)
One(t) == SetToBag({t})
\* The invocations that have not returned yet.  A returned invocation stays in
\* the bag, with its log, for the one state that follows its last step.
Live == [t \in {x \in TaskSet : x.pc # "done"} |-> tasks[t]]
Replace(bag, t, t2) == (bag (-) One(t)) (+) One(t2)
RECURSIVE AddAll(_, _)
AddAll(bag, ts) ==
    IF ts = {} THEN bag
    ELSE LET x == CHOOSE y \in ts : TRUE IN AddAll(bag (+) One(x), ts \ {x})

Done(t, outcome) == [t EXCEPT !.pc = "done", !.outcome = outcome]
Call(t, pc, ch) == [t EXCEPT !.pc = pc, !.at = pc, !.ch = ch]
St(t, s) == [t |-> t, s |-> s]

\* No invocation is between its first step and its return.
Quiet == \A t \in BagToSet(Live) : t.pc = "start"
InFlight == BagCardinality(Live)

\* ------------------------------------------------------------ the listener
\* Faulty variant of AfterCleanup: lines 332-334, the configuration check, are
\* missing.
AfterCleanupIgnoresConfig(t, sess, chans) ==
    IF t.after = None THEN St(Done(t, "returned"), sess)
    ELSE IF HasSession(sess, t.after)
    THEN IF t.before # None /\ t.before = t.after
         THEN St(Done(t, "returned"), sess)
         ELSE IF ~CanJoinLobby(t.user, SessionGet(sess, t.after).owner_id, cfg)
         THEN St([Call(t, "join_kick", None) EXCEPT !.moveTo = None], sess)
         ELSE St(Done(t, "returned"), sess)
    ELSE IF t.after # cfg.entry_voice_channel_id THEN St(Done(t, "returned"), sess)
    ELSE IF t.before # None /\ t.before = t.after THEN St(Done(t, "returned"), sess)
    ELSE IF ~CanCreateLobby(t.user, cfg)
    THEN St([Call(t, "creator_kick", None) EXCEPT !.moveTo = None], sess)
    ELSE LET active_lobby == FindSessionByOwner(sess, GuildId, t.user) IN
         IF active_lobby # NoSession /\ active_lobby.voice_channel_id \in chans
         THEN St([Call(t, "move_back", active_lobby.voice_channel_id)
                    EXCEPT !.moveTo = active_lobby.voice_channel_id], sess)
         ELSE \* _create_lobby_for_member up to `await create_voice_channel`
              St([Call(t, "create", None)
                    EXCEPT !.safe_name = FormatLobbyName(t.user),
                           !.limit = Max(0, Min(cfg.default_user_limit, 99))],
                 IF active_lobby # NoSession
                 THEN SessionPop(sess, active_lobby.voice_channel_id)
                 ELSE sess)

\* Faulty variant of AfterCleanup: lines 338-339 and 351-352, the checks that
\* the member actually changed channel, are missing.
AfterCleanupNoTransitionGuard(t, sess, chans) ==
    IF t.after = None THEN St(Done(t, "returned"), sess)
    ELSE IF ~cfg.exists \/ ~cfg.enabled \/ cfg.entry_voice_channel_id = None
    THEN St(Done(t, "returned"), sess)
    ELSE IF HasSession(sess, t.after)
    THEN IF ~CanJoinLobby(t.user, SessionGet(sess, t.after).owner_id, cfg)
    THEN St([Call(t, "join_kick", None) EXCEPT !.moveTo = None], sess)
         ELSE St(Done(t, "returned"), sess)
    ELSE IF t.after # cfg.entry_voice_channel_id THEN St(Done(t, "returned"), sess)
    ELSE IF ~CanCreateLobby(t.user, cfg)
    THEN St([Call(t, "creator_kick", None) EXCEPT !.moveTo = None], sess)
    ELSE LET active_lobby == FindSessionByOwner(sess, GuildId, t.user) IN
         IF active_lobby # NoSession /\ active_lobby.voice_channel_id \in chans
         THEN St([Call(t, "move_back", active_lobby.voice_channel_id)
                    EXCEPT !.moveTo = active_lobby.voice_channel_id], sess)
         ELSE \* _create_lobby_for_member up to `await create_voice_channel`
              St([Call(t, "create", None)
                    EXCEPT !.safe_name = FormatLobbyName(t.user),
                           !.limit = Max(0, Min(cfg.default_user_limit, 99))],
                 IF active_lobby # NoSession
                 THEN SessionPop(sess, active_lobby.voice_channel_id)
                 ELSE sess)

\* on_voice_state_update, lines 329-376: from `if after.channel is None` to the
\* next awaited call, with `sess` the session map and `chans` the existing
\* temporary channels at that point.
AfterCleanup(t, sess, chans) ==
    IF t.after = None THEN St(Done(t, "returned"), sess)
    ELSE IF ~cfg.exists \/ ~cfg.enabled \/ cfg.entry_voice_channel_id = None
    THEN St(Done(t, "returned"), sess)
    ELSE IF HasSession(sess, t.after)
    THEN IF t.before # None /\ t.before = t.after
         THEN St(Done(t, "returned"), sess)
         ELSE IF ~CanJoinLobby(t.user, SessionGet(sess, t.after).owner_id, cfg)
         THEN St([Call(t, "join_kick", None) EXCEPT !.moveTo = None], sess)
         ELSE St(Done(t, "returned"), sess)
    ELSE IF t.after # cfg.entry_voice_channel_id THEN St(Done(t, "returned"), sess)
    ELSE IF t.before # None /\ t.before = t.after THEN St(Done(t, "returned"), sess)
    ELSE IF ~CanCreateLobby(t.user, cfg)
    THEN St([Call(t, "creator_kick", None) EXCEPT !.moveTo = None], sess)
    ELSE LET active_lobby == FindSessionByOwner(sess, GuildId, t.user) IN
         IF active_lobby # NoSession /\ active_lobby.voice_channel_id \in chans
         THEN St([Call(t, "move_back", active_lobby.voice_channel_id)
                    EXCEPT !.moveTo = active_lobby.voice_channel_id], sess)
         ELSE \* _create_lobby_for_member up to `await create_voice_channel`
              St([Call(t, "create", None)
                    EXCEPT !.safe_name = FormatLobbyName(t.user),
                           !.limit = Max(0, Min(cfg.default_user_limit, 99))],
                 IF active_lobby # NoSession
                 THEN SessionPop(sess, active_lobby.voice_channel_id)
                 ELSE sess)

\* _cleanup_lobby_if_empty up to `await voice_channel.delete`, then the rest of
\* the listener when the coroutine does not suspend there.
CleanupLobbyIfEmpty(t, sess, voice_channel_id) ==
    IF ~HasSession(sess, voice_channel_id) THEN AfterCleanup(t, sess, Chans)
    ELSE IF voice_channel_id \in Chans /\ MembersIn(voice_channel_id) # {}
    THEN AfterCleanup(t, sess, Chans)
    ELSE IF voice_channel_id \in Chans
    THEN St([Call(t, "cleanup_delete", voice_channel_id)
               EXCEPT !.delReq = voice_channel_id], sess)
    ELSE AfterCleanup(t, SessionPop(sess, voice_channel_id), Chans)

\* on_voice_state_update from its first line to the first awaited call.
VoiceStart(t, sess) ==
    IF IsBot(t.user) THEN St(Done(t, "returned"), sess)
    ELSE IF t.before # None /\ HasSession(sess, t.before)
            /\ (t.after = None \/ t.after # t.before)
    THEN CleanupLobbyIfEmpty(t, sess, t.before)
    ELSE AfterCleanup(t, sess, Chans)

\* ------------------------------------------------------------ the panel operations
\* Faulty variant of NotOwner: the comparison is the wrong way round.
NotOwnerInverted(t, sess) ==
    GetLobbyOwner(sess, t.ch) # NoOwner /\ GetLobbyOwner(sess, t.ch) = t.user

\* owner_id is not None and owner_id != interaction.user.id
NotOwner(t, sess) ==
    GetLobbyOwner(sess, t.ch) # NoOwner /\ GetLobbyOwner(sess, t.ch) # t.user

\* update_lobby_name up to `await channel.edit`
RenameStart(t, sess) ==
    IF NotOwner(t, sess) THEN St(Done(t, "not_owner"), sess)
    ELSE IF t.ch \notin Chans THEN St(Done(t, "gone"), sess)
    ELSE St([Call(t, "edit_name", t.ch)
               EXCEPT !.safe_name = SanitizeChannelName(t.name)], sess)

\* Faulty variant of LimitStart: the upper bound of the range check is missing.
LimitStartNoUpperBound(t, sess) ==
    IF NotOwner(t, sess) THEN St(Done(t, "not_owner"), sess)
    ELSE IF t.limit < 0 THEN St(Done(t, "bad_limit"), sess)
    ELSE IF t.ch \notin Chans THEN St(Done(t, "gone"), sess)
    ELSE St(Call(t, "edit_limit", t.ch), sess)

\* update_lobby_user_limit up to `await channel.edit`
LimitStart(t, sess) ==
    IF NotOwner(t, sess) THEN St(Done(t, "not_owner"), sess)
    ELSE IF t.limit < 0 \/ t.limit > 99 THEN St(Done(t, "bad_limit"), sess)
    ELSE IF t.ch \notin Chans THEN St(Done(t, "gone"), sess)
    ELSE St(Call(t, "edit_limit", t.ch), sess)

\* close_lobby up to `await interaction.response.send_message("Closing lobby")`
CloseStart(t, sess) ==
    IF NotOwner(t, sess) THEN St(Done(t, "not_owner"), sess)
    ELSE St(Call(t, "close_ack", t.ch), sess)

\* Faulty variant of ForceCleanupLobby: an occupied channel is left alone, as
\* in the idle cleanup.
ForceCleanupLobbyIfEmpty(t, sess, chans) ==
    IF ~HasSession(sess, t.ch) THEN St(Done(t, "closed"), sess)
    ELSE IF t.ch \in chans /\ MembersIn(t.ch) # {} THEN St(Done(t, "closed"), sess)
    ELSE IF t.ch \in chans
    THEN St([Call(t, "close_delete", t.ch) EXCEPT !.delReq = t.ch], sess)
    ELSE St(Done(t, "closed"), SessionPop(sess, t.ch))

\* Faulty variant of ForceCleanupLobby: the channel is deleted whether or not
\* a session is recorded for it.
ForceCleanupLobbyUntracked(t, sess, chans) ==
    IF t.ch \in chans
    THEN St([Call(t, "close_delete", t.ch) EXCEPT !.delReq = t.ch], sess)
    ELSE St(Done(t, "closed"), SessionPop(sess, t.ch))

\* _force_cleanup_lobby up to `await voice_channel.delete`
ForceCleanupLobby(t, sess, chans) ==
    IF ~HasSession(sess, t.ch) THEN St(Done(t, "closed"), sess)
    ELSE IF t.ch \in chans
    THEN St([Call(t, "close_delete", t.ch) EXCEPT !.delReq = t.ch], sess)
    ELSE St(Done(t, "closed"), SessionPop(sess, t.ch))

\* The first synchronous stretch of an invocation.
StartOf(t, sess) ==
    CASE t.kind = "voice"  -> VoiceStart(t, sess)
      [] t.kind = "rename" -> RenameStart(t, sess)
      [] t.kind = "limit"  -> LimitStart(t, sess)
      [] t.kind = "close"  -> CloseStart(t, sess)

\* Faulty variant of AfterDelete: the pop sits inside the try block, so a
\* failed delete keeps the record.
AfterDeleteOnlyOnSuccess(sess, voice_channel_id, ok) ==
    IF ok THEN SessionPop(sess, voice_channel_id) ELSE sess

\* _cleanup_lobby_if_empty lines 199-205 and _force_cleanup_lobby lines 307-313:
\* try: await voice_channel.delete(); except (Forbidden, HTTPException): log;
\* then pop, whether the delete returned (ok) or raised.
AfterDelete(sess, voice_channel_id, ok) == SessionPop(sess, voice_channel_id)

\* Faulty variant of ResumeOf: no try/except around voice_channel.delete(), so
\* a failed delete ends the invocation with the exception.
ResumeOfDeleteUncaught(t, ok, sess, chans) ==
    IF t.pc \in {"cleanup_delete", "close_delete"} /\ ~ok
    THEN St(Done(t, "raised"), sess)
    ELSE
    CASE t.pc = "cleanup_delete" ->
            AfterCleanup(t, AfterDelete(sess, t.ch, ok), chans)
      [] t.pc = "close_delete" ->
            St(Done(t, "closed"), AfterDelete(sess, t.ch, ok))
      [] t.pc \in {"join_kick", "creator_kick", "move_back"} ->
            \* no try/except around these move_to calls
            St(Done(t, IF ok THEN "returned" ELSE "raised"), sess)
      [] t.pc = "create" ->
            \* on success t.ch is the new channel's id
            IF ok
            THEN St([Call(t, "move_new", t.ch) EXCEPT !.moveTo = t.ch],
                    SessionPut(sess, GuildId, t.user, t.ch))
            ELSE St(Done(t, "returned"), sess)
      [] t.pc = "move_new" ->
            IF ok THEN St(Call(t, "send_panel", t.ch), sess)
            ELSE St(Done(t, "returned"), sess)
      [] t.pc = "send_panel" ->
            St(Done(t, "returned"), sess)
      [] t.pc = "edit_name" ->
            St(Done(t, IF ok THEN "renamed" ELSE "raised"), sess)
      [] t.pc = "edit_limit" ->
            St(Done(t, IF ok THEN "limit_set" ELSE "raised"), sess)
      [] t.pc = "close_ack" ->
            IF ok THEN ForceCleanupLobby(t, sess, chans)
            ELSE St(Done(t, "raised"), sess)

\* The stretch that follows the awaited call t.pc: ok says whether the call
\* returned or raised (discord.Forbidden / discord.HTTPException); sess and
\* chans are the session map and the existing channels once it has.
ResumeOf(t, ok, sess, chans) ==
    CASE t.pc = "cleanup_delete" ->
            AfterCleanup(t, AfterDelete(sess, t.ch, ok), chans)
      [] t.pc = "close_delete" ->
            St(Done(t, "closed"), AfterDelete(sess, t.ch, ok))
      [] t.pc \in {"join_kick", "creator_kick", "move_back"} ->
            \* no try/except around these move_to calls
            St(Done(t, IF ok THEN "returned" ELSE "raised"), sess)
      [] t.pc = "create" ->
            \* on success t.ch is the new channel's id
            IF ok
            THEN St([Call(t, "move_new", t.ch) EXCEPT !.moveTo = t.ch],
                    SessionPut(sess, GuildId, t.user, t.ch))
            ELSE St(Done(t, "returned"), sess)
      [] t.pc = "move_new" ->
            IF ok THEN St(Call(t, "send_panel", t.ch), sess)
            ELSE St(Done(t, "returned"), sess)
      [] t.pc = "send_panel" ->
            St(Done(t, "returned"), sess)
      [] t.pc = "edit_name" ->
            St(Done(t, IF ok THEN "renamed" ELSE "raised"), sess)
      [] t.pc = "edit_limit" ->
            St(Done(t, IF ok THEN "limit_set" ELSE "raised"), sess)
      [] t.pc = "close_ack" ->
            IF ok THEN ForceCleanupLobby(t, sess, chans)
            ELSE St(Done(t, "raised"), sess)

\* Two creation sequences for the same member are in flight at once.
Overlaps(t2, others) ==
    t2.pc = "create"
    /\ \E o \in BagToSet(others) : o.kind = "voice" /\ o.user = t2.user /\ o.pc = "create"

\* ------------------------------------------------------------ actions
\* Serial: every invocation runs to completion before the next event is
\* dispatched or the next invocation starts.  Counted: the environment's steps
\* are counted against MaxEvents.
Serial == mode # "interleaved"
Counted == mode # "serial"

NoPre == [sessions |-> <<>>, channels |-> <<>>, loc |-> [m \in Members |-> None]]

\* No message is being rewritten and no helper is called on its own.
NotReturned == <<"not returned">>
NotCalled == [called |-> FALSE]
ParserIdle ==
    /\ message = <<>>
    /\ results = <<>>
    /\ recognized = <<>>
    /\ unparsable = {}
    /\ next_match = 1
    /\ search_offset = 0
    /\ replacements = <<>>
    /\ located = <<>>
    /\ result = NotReturned
    /\ fn_args = NotCalled
    /\ fn_result = NotCalled

Init ==
    /\ cfg \in Configs
    /\ mode = "interleaved"
    /\ loc = [m \in Members |-> None]
    /\ channels = <<>>
    /\ nextId = FirstLobbyId
    /\ sessions = <<>>
    /\ tasks = EmptyBag
    /\ pre = NoPre
    /\ overlap = {}
    /\ events = 0
    /\ ParserIdle

InitSerial ==
    /\ cfg \in Configs
    /\ mode = "serial"
    /\ loc = [m \in Members |-> None]
    /\ channels = <<>>
    /\ nextId = FirstLobbyId
    /\ sessions = <<>>
    /\ tasks = EmptyBag
    /\ pre = NoPre
    /\ overlap = {}
    /\ events = 0
    /\ ParserIdle

\* The panel operations are explored under one configuration: the feature on,
\* the entry channel set, no role restriction.
OpenConfig ==
    [exists |-> TRUE, enabled |-> TRUE, entry_voice_channel_id |-> EntryChannel,
     creator_role_ids |-> {}, join_role_ids |-> {}, default_user_limit |-> 0]

InitPanel ==
    /\ cfg = OpenConfig
    /\ mode = "panel"
    /\ loc = [m \in Members |-> None]
    /\ channels = <<>>
    /\ nextId = FirstLobbyId
    /\ sessions = <<>>
    /\ tasks = EmptyBag
    /\ pre = NoPre
    /\ overlap = {}
    /\ events = 0
    /\ ParserIdle

\* The environment may act: there is room for its event, and under serial
\* dispatch every earlier invocation has returned.
MayDispatch ==
    /\ InFlight < MaxTasks
    /\ Serial => Live = EmptyBag
    /\ IF Counted THEN events < MaxEvents /\ events' = events + 1
       ELSE events' = events

\* A member joins, leaves or changes voice channel; the gateway dispatches
\* on_voice_state_update(member, before, after).
UserMove(m, to) ==
    /\ MayDispatch
    /\ to \in {None, EntryChannel} \cup Chans
    /\ to # loc[m]
    /\ loc' = [loc EXCEPT ![m] = to]
    /\ tasks' = Live (+) One(VoiceEvent(m, loc[m], to))
    /\ pre' = NoPre
    /\ UNCHANGED <<parser, helper, cfg, mode, channels, nextId, sessions, overlap>>

\* A member's voice state changes without a change of channel (mute, deafen).
UserToggle(m) ==
    /\ MayDispatch
    /\ loc[m] # None
    /\ tasks' = Live (+) One(VoiceEvent(m, loc[m], loc[m]))
    /\ pre' = NoPre
    /\ UNCHANGED <<parser, helper, cfg, mode, loc, channels, nextId, sessions, overlap>>

\* The members of a deleted channel are disconnected, one event each.
Disconnected(ch) == {VoiceEvent(m, ch, None) : m \in MembersIn(ch)}
Without(ch) == [c \in Chans \ {ch} |-> channels[c]]

\* Someone else (a moderator) deletes a temporary channel.
ExternalDelete(ch) ==
    /\ MayDispatch
    /\ ch \in Chans
    /\ channels' = Without(ch)
    /\ loc' = [m \in Members |-> IF loc[m] = ch THEN None ELSE loc[m]]
    /\ tasks' = AddAll(Live, Disconnected(ch))
    /\ pre' = NoPre
    /\ UNCHANGED <<parser, helper, cfg, mode, nextId, sessions, overlap>>

\* RenameLobbyModal.on_submit -> update_lobby_name(interaction, ch, name)
PanelRename(u, ch, name) ==
    /\ MayDispatch
    /\ ch \in FirstLobbyId..(nextId - 1)
    /\ tasks' = Live (+) One(NewTask("rename", u, None, None, ch, name, 0))
    /\ pre' = NoPre
    /\ UNCHANGED <<parser, helper, cfg, mode, loc, channels, nextId, sessions, overlap>>

\* UserLimitModal.on_submit / unlock_button -> update_lobby_user_limit(interaction, ch, n)
PanelLimit(u, ch, n) ==
    /\ MayDispatch
    /\ ch \in FirstLobbyId..(nextId - 1)
    /\ tasks' = Live (+) One(NewTask("limit", u, None, None, ch, <<>>, n))
    /\ pre' = NoPre
    /\ UNCHANGED <<parser, helper, cfg, mode, loc, channels, nextId, sessions, overlap>>

\* delete_button -> close_lobby(interaction, ch)
PanelClose(u, ch) ==
    /\ MayDispatch
    /\ ch \in FirstLobbyId..(nextId - 1)
    /\ tasks' = Live (+) One(NewTask("close", u, None, None, ch, <<>>, 0))
    /\ pre' = NoPre
    /\ UNCHANGED <<parser, helper, cfg, mode, loc, channels, nextId, sessions, overlap>>

\* What a step of invocation t that ends in state r = St(t2, sess2) does to the
\* bag (with the events the step caused), the session map and `overlap`.
Step(t, r, caused) ==
    /\ tasks' = AddAll(Replace(Live, t, r.t), caused)
    /\ sessions' = r.s
    /\ overlap' = IF Overlaps(r.t, Live (-) One(t)) THEN overlap \cup {t.user} ELSE overlap

\* The loop starts an invocation and runs it to its first awaited call.
Begin(t) ==
    /\ t.pc = "start"
    /\ Serial => Quiet
    /\ Step(t, StartOf(t, sessions), {})
    /\ pre' = IF Serial THEN [sessions |-> sessions, channels |-> channels, loc |-> loc] ELSE pre
    /\ UNCHANGED <<parser, helper, cfg, mode, loc, channels, nextId, events>>

\* channel.delete() succeeds and the coroutine runs on.
DeleteReturns(t) ==
    /\ t.pc \in {"cleanup_delete", "close_delete"}
    /\ t.ch \in Chans
    /\ channels' = Without(t.ch)
    /\ loc' = [m \in Members |-> IF loc[m] = t.ch THEN None ELSE loc[m]]
    /\ Step(t, ResumeOf(t, TRUE, sessions, Chans \ {t.ch}), Disconnected(t.ch))
    /\ UNCHANGED <<parser, helper, cfg, mode, nextId, pre, events>>

\* member.move_to(channel or None) succeeds (the member is connected to voice
\* and the target exists) and the coroutine runs on.
MoveReturns(t) ==
    /\ t.pc \in {"join_kick", "creator_kick", "move_back", "move_new"}
    /\ loc[t.user] # None
    /\ t.moveTo = None \/ t.moveTo \in Chans
    /\ loc' = [loc EXCEPT ![t.user] = t.moveTo]
    /\ Step(t, ResumeOf(t, TRUE, sessions, Chans),
            IF loc[t.user] = t.moveTo THEN {}
            ELSE {VoiceEvent(t.user, loc[t.user], t.moveTo)})
    /\ UNCHANGED <<parser, helper, cfg, mode, channels, nextId, pre, events>>

\* guild.create_voice_channel(name, category, overwrites, user_limit) succeeds
\* and the coroutine runs on.
CreateReturns(t) ==
    /\ t.pc = "create"
    /\ nextId <= LastLobbyId
    /\ channels' = (nextId :> [name |-> t.safe_name, user_limit |-> t.limit]) @@ channels
    /\ nextId' = nextId + 1
    /\ Step(t, ResumeOf([t EXCEPT !.ch = nextId, !.made = nextId], TRUE, sessions,
                        Chans \cup {nextId}), {})
    /\ UNCHANGED <<parser, helper, cfg, mode, loc, pre, events>>

\* channel.edit(name=...) or channel.edit(user_limit=...) succeeds and the
\* coroutine runs on.
EditReturns(t) ==
    /\ t.pc \in {"edit_name", "edit_limit"}
    /\ t.ch \in Chans
    /\ channels' = IF t.pc = "edit_name"
                   THEN [channels EXCEPT ![t.ch].name = t.safe_name]
                   ELSE [channels EXCEPT ![t.ch].user_limit = t.limit]
    /\ Step(t, ResumeOf(t, TRUE, sessions, Chans), {})
    /\ UNCHANGED <<parser, helper, cfg, mode, loc, nextId, pre, events>>

\* voice_channel.send(...) or interaction.response.send_message(...) succeeds
\* and the coroutine runs on.
SendReturns(t) ==
    /\ t.pc \in {"send_panel", "close_ack"}
    /\ t.pc = "send_panel" => t.ch \in Chans
    /\ Step(t, ResumeOf(t, TRUE, sessions, Chans), {})
    /\ UNCHANGED <<parser, helper, cfg, mode, loc, channels, nextId, pre, events>>

\* The awaited call raises discord.Forbidden or discord.HTTPException and the
\* coroutine runs on from there.
CallRaises(t) ==
    /\ t.pc \notin {"start", "done"}
    /\ Step(t, ResumeOf([t EXCEPT !.failed = @ \cup {t.pc}], FALSE, sessions, Chans), {})
    /\ UNCHANGED <<parser, helper, cfg, mode, loc, channels, nextId, pre, events>>

NameInputs == {<<>>, <<" ", "x", " ", " ", "y">>}
LimitInputs == {0 - 1, 0, 5, 150}

Next ==
    \/ \E m \in Members, to \in {None, EntryChannel} \cup LobbyIds : UserMove(m, to)
    \/ \E m \in Members : UserToggle(m)
    \/ \E ch \in LobbyIds : ExternalDelete(ch)
    \/ \E u \in Humans, ch \in LobbyIds : PanelClose(u, ch)
    \/ \E t \in TaskSet : Begin(t)
    \/ \E t \in TaskSet : DeleteReturns(t)
    \/ \E t \in TaskSet : MoveReturns(t)
    \/ \E t \in TaskSet : CreateReturns(t)
    \/ \E t \in TaskSet : SendReturns(t)
    \/ \E t \in TaskSet : CallRaises(t)

\* The panel's rename and set-limit operations, on top of everything else.
NextPanel ==
    \/ Next
    \/ \E u \in Humans, ch \in LobbyIds, name \in NameInputs : PanelRename(u, ch, name)
    \/ \E u \in Humans, ch \in LobbyIds, n \in LimitInputs : PanelLimit(u, ch, n)
    \/ \E t \in TaskSet : EditReturns(t)

\* Coroutines interleave at their awaited calls.
Spec == Init /\ [][Next]_vars

\* Every awaited call returns: coroutines interleave and no call raises.
NextReliable ==
    \/ \E m \in Members, to \in {None, EntryChannel} \cup LobbyIds : UserMove(m, to)
    \/ \E m \in Members : UserToggle(m)
    \/ \E ch \in LobbyIds : ExternalDelete(ch)
    \/ \E u \in Humans, ch \in LobbyIds : PanelClose(u, ch)
    \/ \E t \in TaskSet : Begin(t)
    \/ \E t \in TaskSet : DeleteReturns(t)
    \/ \E t \in TaskSet : MoveReturns(t)
    \/ \E t \in TaskSet : CreateReturns(t)
    \/ \E t \in TaskSet : SendReturns(t)
SpecReliable == Init /\ [][NextReliable]_vars
\* Every invocation runs to completion before the next one starts.
SpecSerial == InitSerial /\ [][Next]_vars
\* Serial dispatch, with the rename and set-limit operations.
SpecPanel == InitPanel /\ [][NextPanel]_vars

\* The configuration document is read anew for every event (repo.get_config),
\* and an administrator can change it between two events.
DisabledConfigs ==
    {NoConfig, [OpenConfig EXCEPT !.enabled = FALSE],
     [OpenConfig EXCEPT !.entry_voice_channel_id = None]}
ConfigChange(c) ==
    /\ MayDispatch
    /\ c # cfg
    /\ cfg' = c
    /\ tasks' = Live
    /\ pre' = NoPre
    /\ UNCHANGED <<parser, helper, mode, loc, channels, nextId, sessions, overlap>>

InitReconfig ==
    /\ cfg = OpenConfig
    /\ mode = "reconfigured"
    /\ loc = [m \in Members |-> None]
    /\ channels = <<>>
    /\ nextId = FirstLobbyId
    /\ sessions = <<>>
    /\ tasks = EmptyBag
    /\ pre = NoPre
    /\ overlap = {}
    /\ events = 0
    /\ ParserIdle

NextReconfig ==
    \/ Next
    \/ \E c \in DisabledConfigs \cup {OpenConfig} : ConfigChange(c)

\* Serial dispatch, with the feature switched off and on between events.
SpecReconfig == InitReconfig /\ [][NextReconfig]_vars

\* A process start with a temporary channel of the previous run still there:
\* __init__ gives an empty session map; the platform hands out fresh ids.
RestrictedConfig == [OpenConfig EXCEPT !.join_role_ids = {"R"}]
InitRestart ==
    /\ cfg \in {OpenConfig, RestrictedConfig}
    /\ mode = "restarted"
    /\ loc = [m \in Members |-> None]
    /\ channels = (FirstLobbyId :> [name |-> DefaultName, user_limit |-> 0])
    /\ nextId = FirstLobbyId + 1
    /\ sessions = <<>>
    /\ tasks = EmptyBag
    /\ pre = NoPre
    /\ overlap = {}
    /\ events = 0
    /\ ParserIdle

\* Serial dispatch and the panel operations, after a restart.
SpecRestart == InitRestart /\ [][NextPanel]_vars

\* ------------------------------------------------------------ time phrases
\* time_impersonator/cog.py, _parse_and_replace_times.  Strings are sequences
\* of one-character strings; offsets are 0-based as in the code.

\* trailing_punct = "?!.,;:)"
TrailingPunct == {"?", "!", ".", ",", ";", ":", ")"}

\* leading_prepositions, in the order of the tuple
LeadingPrepositions ==
    << <<"a", "t", " ">>, <<"b", "y", " ">>, <<"f", "r", "o", "m", " ">>,
       <<"u", "n", "t", "i", "l", " ">>, <<"t", "i", "l", "l", " ">>,
       <<"a", "r", "o", "u", "n", "d", " ">> >>

\* str.lower() on the characters the messages are made of
LowerChar(c) == IF c = "A" THEN "a" ELSE c
Lower(str) == [i \in DOMAIN str |-> LowerChar(str[i])]

\* str[from:to]
Slice(str, from, to) == SubSeq(str, from + 1, Min(to, Len(str)))

\* str.startswith(prefix)
StartsWith(str, prefix) ==
    Len(str) >= Len(prefix) /\ SubSeq(str, 1, Len(prefix)) = prefix

\* matched_text.rstrip(trailing_punct)
RECURSIVE RStrip(_)
RStrip(str) ==
    IF str = <<>> THEN str
    ELSE IF str[Len(str)] \in TrailingPunct THEN RStrip(SubSeq(str, 1, Len(str) - 1))
    ELSE str

\* lines 138-142: the first preposition of the tuple that the lowered match
\* starts with is cut off
TimeOnly(clean_match) ==
    LET hits == {i \in DOMAIN LeadingPrepositions :
                    StartsWith(Lower(clean_match), LeadingPrepositions[i])}
    IN  IF hits = {} THEN clean_match
        ELSE LET first == CHOOSE i \in hits : \A j \in hits : i <= j
             IN  Slice(clean_match, Len(LeadingPrepositions[first]), Len(clean_match))

\* str.find(sub, start): the lowest offset >= start where sub occurs, else -1
Find(str, sub, start) ==
    LET hits == {i \in start..(Len(str) - Len(sub)) : Slice(str, i, i + Len(sub)) = sub}
    IN  IF hits = {} THEN 0 - 1
        ELSE CHOOSE i \in hits : \A j \in hits : i <= j

\* f"<t:{unix_ts}:t>"; the numeral of the timestamp is one stand-in character
DiscordTs(clean_match) == <<"<", "t", ":", "N", ":", "t", ">">>

\* Faulty variant of SortDescending: the list is applied in the order recorded.
AsRecorded(reps) == reps

\* replacements.sort(key=start, reverse=True): a stable sort, descending
RECURSIVE SortDescending(_)
SortDescending(reps) ==
    IF reps = <<>> THEN <<>>
    ELSE LET i == CHOOSE i \in DOMAIN reps :
                     /\ \A j \in DOMAIN reps : reps[j][1] <= reps[i][1]
                     /\ \A j \in 1..(i - 1) : reps[j][1] < reps[i][1]
             rest == [j \in 1..(Len(reps) - 1) |-> IF j < i THEN reps[j] ELSE reps[j + 1]]
         IN  <<reps[i]>> \o SortDescending(rest)

\* lines 177-179: the replacements applied one after the other to the result
RECURSIVE ApplyReplacements(_, _)
ApplyReplacements(str, reps) ==
    IF reps = <<>> THEN str
    ELSE LET start_idx == reps[1][1]
             length == reps[1][2]
         IN  ApplyReplacements(
                 Slice(str, 0, start_idx) \o reps[1][3] \o Slice(str, start_idx + length, Len(str)),
                 Tail(reps))

\* Faulty variant of HandleMatch: the outcome of the re-parse is not looked at.
HandleMatchIgnoresReparse(msg, matched_text, offset, bad) ==
    LET clean_match == RStrip(matched_text)
        time_only == TimeOnly(clean_match)
        full_start_idx == Find(msg, clean_match, offset)
        base == [matched_text |-> matched_text, clean_match |-> clean_match,
                 time_only |-> time_only, full_start_idx |-> 0 - 1,
                 start_idx |-> 0 - 1, offset_after |-> offset, outcome |-> "empty"]
    IN  IF clean_match = <<>> THEN base
        ELSE IF full_start_idx = 0 - 1 THEN [base EXCEPT !.outcome = "not_found"]
        ELSE [base EXCEPT !.full_start_idx = full_start_idx,
                          !.start_idx = full_start_idx + (Len(clean_match) - Len(time_only)),
                          !.offset_after = full_start_idx + Len(clean_match),
                          !.outcome = "recorded"]

\* Faulty variant of HandleMatch: a match that does not re-parse leaves the
\* search offset where it was.
HandleMatchKeepsOffset(msg, matched_text, offset, bad) ==
    LET h == HandleMatchIgnoresReparse(msg, matched_text, offset, bad)
    IN  IF h.outcome = "recorded" /\ h.clean_match \in bad
        THEN [h EXCEPT !.outcome = "unparsable", !.offset_after = offset]
        ELSE h

\* One pass of the loop body, lines 131-171, for matched_text with the search
\* at offset: what it found and whether it recorded a replacement.
HandleMatch(msg, matched_text, offset, bad) ==
    LET clean_match == RStrip(matched_text)
        time_only == TimeOnly(clean_match)
        full_start_idx == Find(msg, clean_match, offset)
        start_idx == full_start_idx + (Len(clean_match) - Len(time_only))
        base == [matched_text |-> matched_text, clean_match |-> clean_match,
                 time_only |-> time_only, full_start_idx |-> 0 - 1,
                 start_idx |-> 0 - 1, offset_after |-> offset, outcome |-> "empty"]
    IN  IF clean_match = <<>> THEN base
        ELSE IF full_start_idx = 0 - 1 THEN [base EXCEPT !.outcome = "not_found"]
        ELSE [base EXCEPT !.full_start_idx = full_start_idx,
                          !.start_idx = start_idx,
                          !.offset_after = full_start_idx + Len(clean_match),
                          !.outcome = IF clean_match \in bad THEN "unparsable"
                                      ELSE "recorded"]

\* The messages: up to MaxPieces pieces, each a preposition, a time, a letter,
\* a blank or a punctuation mark.
MaxPieces == 4
MaxMatches == 2
Pieces == {<<"a", "t", " ">>, <<"A", "t", " ">>, <<"8">>, <<"x">>, <<" ">>, <<"?">>}
TimePiece == <<"8">>
PieceSeqs == UNION {[1..n -> Pieces] : n \in 0..MaxPieces}

RECURSIVE Flatten(_)
Flatten(ps) == IF ps = <<>> THEN <<>> ELSE Head(ps) \o Flatten(Tail(ps))

\* What search_dates may return for a message made of pieces ps: phrases the
\* message holds, each a run of pieces with a time in it, left to right and
\* not overlapping; and texts that are no phrase of the message (a rewritten
\* phrase, bare punctuation).
Runs(ps) ==
    {r \in (1..Len(ps)) \X (1..Len(ps)) :
        r[1] <= r[2] /\ \E i \in r[1]..r[2] : ps[i] = TimePiece}
Strays == {<<"9">>, <<"?">>}
NotInMessage == 0 - 1
RunText(ps, r) == Flatten(SubSeq(ps, r[1], r[2]))
RunOffset(ps, r) == Len(Flatten(SubSeq(ps, 1, r[1] - 1)))
Found(ps, r) ==
    [text |-> RunText(ps, r), at |-> RunOffset(ps, r), first |-> r[1], last |-> r[2]]
Stray(text) == [text |-> text, at |-> NotInMessage, first |-> 0, last |-> 0]
Follows(a, b) == a.at # NotInMessage /\ b.at # NotInMessage => a.last < b.first
SearchDates(ps) ==
    LET one == {Found(ps, r) : r \in Runs(ps)} \cup {Stray(x) : x \in Strays}
    IN  {f \in UNION {[1..n -> one] : n \in 0..MaxMatches} :
            \A i, j \in DOMAIN f : i < j => Follows(f[i], f[j])}

InitTime ==
    /\ cfg = NoConfig
    /\ mode = "serial"
    /\ loc = [m \in Members |-> None]
    /\ channels = <<>>
    /\ nextId = FirstLobbyId
    /\ sessions = <<>>
    /\ tasks = EmptyBag
    /\ pre = NoPre
    /\ overlap = {}
    /\ events = 0
    /\ \E ps \in PieceSeqs :
         \E found \in SearchDates(ps) :
            /\ message = Flatten(ps)
            /\ results = [i \in DOMAIN found |-> found[i].text]
            /\ recognized = [i \in DOMAIN found |-> found[i].at]
            /\ unparsable \in SUBSET {RStrip(found[i].text) : i \in DOMAIN found}
    /\ next_match = 1
    /\ search_offset = 0
    /\ replacements = <<>>
    /\ located = <<>>
    /\ result = NotReturned
    /\ fn_args = NotCalled
    /\ fn_result = NotCalled

\* lines 115-116: `if not results: return message`
ReturnUnchanged ==
    /\ result = NotReturned
    /\ results = <<>>
    /\ result' = message
    /\ UNCHANGED <<lobby, helper, message, results, recognized, unparsable, next_match,
                   search_offset, replacements, located>>

\* lines 131-171: one iteration of `for matched_text, _ in results`
Iterate ==
    /\ result = NotReturned
    /\ next_match <= Len(results)
    /\ LET h == HandleMatch(message, results[next_match], search_offset, unparsable)
       IN  /\ search_offset' = h.offset_after
           /\ replacements' =
                 IF h.outcome = "recorded"
                 THEN Append(replacements,
                             <<h.start_idx, Len(h.time_only), DiscordTs(h.clean_match)>>)
                 ELSE replacements
           /\ located' = Append(located, h)
    /\ next_match' = next_match + 1
    /\ UNCHANGED <<lobby, helper, message, results, recognized, unparsable, result>>

\* lines 173-181: sort, apply, return
Apply ==
    /\ result = NotReturned
    /\ results # <<>>
    /\ next_match > Len(results)
    /\ result' = ApplyReplacements(message, SortDescending(replacements))
    /\ UNCHANGED <<lobby, helper, message, results, recognized, unparsable, next_match,
                   search_offset, replacements, located>>

NextTime == ReturnUnchanged \/ Iterate \/ Apply

\* One call of _parse_and_replace_times, from the search's answer to the return.
SpecTime == InitTime /\ [][NextTime]_vars

\* ------------------------------------------------------------ permission overwrites
\* _create_lobby_for_member lines 153-157 and _build_voice_channel_overwrites.
RoleIds == {"R", "S", "T"}
Everyone == "@everyone"
NoMember == "no member"

FullControl ==
    [view_channel |-> "allow", connect |-> "allow", manage_channels |-> "allow",
     move_members |-> "allow", send_messages |-> "allow", read_message_history |-> "allow"]
DenyJoin ==
    [view_channel |-> "unset", connect |-> "deny", manage_channels |-> "unset",
     move_members |-> "unset", send_messages |-> "deny", read_message_history |-> "deny"]
AllowJoin ==
    [view_channel |-> "allow", connect |-> "allow", manage_channels |-> "unset",
     move_members |-> "unset", send_messages |-> "allow", read_message_history |-> "allow"]

\* lines 153-157: the configured ids that guild.get_role resolves
JoinRoles(join_role_ids, guild_roles) == join_role_ids \cap guild_roles

\* _build_voice_channel_overwrites: the dict is filled in the order owner,
\* default role, join roles, bot member; a later entry replaces an earlier one.
BuildVoiceChannelOverwrites(owner, join_roles, bot_member) ==
    LET first == (owner :> FullControl)
        gate == IF join_roles # {}
                THEN [r \in join_roles |-> AllowJoin] @@ (Everyone :> DenyJoin)
                ELSE <<>>
        me == IF bot_member # NoMember THEN (bot_member :> FullControl) ELSE <<>>
    IN  me @@ gate @@ first

InitOverwrites ==
    /\ cfg = NoConfig
    /\ mode = "serial"
    /\ loc = [m \in Members |-> None]
    /\ channels = <<>>
    /\ nextId = FirstLobbyId
    /\ sessions = <<>>
    /\ tasks = EmptyBag
    /\ pre = NoPre
    /\ overlap = {}
    /\ events = 0
    /\ message = <<>> /\ results = <<>> /\ recognized = <<>> /\ unparsable = {}
    /\ next_match = 1 /\ search_offset = 0 /\ replacements = <<>> /\ located = <<>>
    /\ result = NotReturned
    /\ fn_result = NotCalled
    /\ fn_args \in [called : {TRUE}, owner : Humans, join_role_ids : SUBSET RoleIds,
                    guild_roles : SUBSET RoleIds, bot_member : Bots \cup {NoMember}]

\* The overwrites handed to create_voice_channel at line 162.
BuildOverwrites ==
    /\ fn_args.called /\ ~fn_result.called
    /\ fn_result' =
          [called |-> TRUE,
           overwrites |-> BuildVoiceChannelOverwrites(
                              fn_args.owner,
                              JoinRoles(fn_args.join_role_ids, fn_args.guild_roles),
                              fn_args.bot_member)]
    /\ UNCHANGED <<lobby, parser, fn_args>>

\* The permission overwrites of a new lobby, for every configuration and guild.
SpecOverwrites == InitOverwrites /\ [][BuildOverwrites]_vars

\* ------------------------------------------------------------ name template
\* _format_lobby_name: str.format(owner=..., username=...) with no positional
\* arguments, over templates that hold no ':' and no '!'.
Owner == <<"o", "w", "n", "e", "r">>
Username == <<"u", "s", "e", "r", "n", "a", "m", "e">>
UserName(m) == IF m = "m1" THEN <<"a">> ELSE IF m = "m2" THEN <<"b">> ELSE <<"z">>
Digits == {"0", "1", "2", "3", "4", "5", "6", "7", "8", "9"}
DigitValue(c) == CHOOSE n \in 0..9 : <<"0", "1", "2", "3", "4", "5", "6", "7", "8", "9">>[n + 1] = c

Raised(e) == [error |-> e, text |-> <<>>]
Rendered(text) == [error |-> "none", text |-> text]

\* The first position from j on that holds one of the characters cs, or
\* Len(str) + 1 when there is none.
RECURSIVE Scan(_, _, _)
Scan(str, j, cs) ==
    IF j > Len(str) THEN Len(str) + 1
    ELSE IF str[j] \in cs THEN j
    ELSE Scan(str, j + 1, cs)

IsInteger(str) == str # <<>> /\ \A i \in 1..Len(str) : str[i] \in Digits

RECURSIVE GetInteger(_)
GetInteger(str) ==
    IF str = <<>> THEN 0
    ELSE 10 * GetInteger(SubSeq(str, 1, Len(str) - 1)) + DigitValue(str[Len(str)])

\* parse_field: the position of the '}' that closes the field opened before
\* j, or 0 when the field name holds a '{' or the template ends first. A '['
\* skips to the next ']'.
RECURSIVE FieldEnd(_, _)
FieldEnd(tpl, j) ==
    IF j > Len(tpl) THEN 0
    ELSE IF tpl[j] = "{" THEN 0
    ELSE IF tpl[j] = "}" THEN j
    ELSE IF tpl[j] = "[" THEN FieldEnd(tpl, Scan(tpl, j + 1, {"]"}))
    ELSE FieldEnd(tpl, j + 1)

\* FieldNameIterator over the rest of a field name, applied to a str value:
\* no attribute of str is spelled with the characters used here, a str is not
\* indexed by a str, and an integer index picks one character.
RECURSIVE Access(_, _)
Access(obj, rest) ==
    IF rest = <<>> THEN Rendered(obj)
    ELSE IF rest[1] = "."
    THEN LET stop == Scan(rest, 2, {".", "["})
         IN  IF stop = 2 THEN Raised("ValueError") ELSE Raised("AttributeError")
    ELSE IF rest[1] = "["
    THEN LET close == Scan(rest, 2, {"]"})
             name == SubSeq(rest, 2, close - 1)
         IN  IF close > Len(rest) THEN Raised("ValueError")
             ELSE IF name = <<>> THEN Raised("ValueError")
             ELSE IF ~IsInteger(name) THEN Raised("TypeError")
             ELSE IF GetInteger(name) >= Len(obj) THEN Raised("IndexError")
             ELSE Access(<<obj[GetInteger(name) + 1]>>, SubSeq(rest, close + 1, Len(rest)))
    ELSE Raised("ValueError")

\* get_field_object: an empty or numeric first part indexes the (empty)
\* positional arguments, any other first part is looked up in the keywords.
GetFieldObject(field_name, kwargs) ==
    LET stop == Scan(field_name, 1, {".", "["})
        first == SubSeq(field_name, 1, stop - 1)
        rest == SubSeq(field_name, stop, Len(field_name))
    IN  IF first = <<>> \/ IsInteger(first) THEN Raised("IndexError")
        ELSE IF first \notin DOMAIN kwargs THEN Raised("KeyError")
        ELSE Access(kwargs[first], rest)

\* MarkupIterator: literal text, doubled braces and fields, left to right; the
\* first error ends the rendering.
RECURSIVE StrFormat(_, _, _, _)
StrFormat(tpl, i, out, kwargs) ==
    IF i > Len(tpl) THEN Rendered(out)
    ELSE IF tpl[i] \notin {"{", "}"} THEN StrFormat(tpl, i + 1, Append(out, tpl[i]), kwargs)
    ELSE IF i < Len(tpl) /\ tpl[i + 1] = tpl[i]
    THEN StrFormat(tpl, i + 2, Append(out, tpl[i]), kwargs)
    ELSE IF tpl[i] = "}" \/ i = Len(tpl) THEN Raised("ValueError")
    ELSE LET close == FieldEnd(tpl, i + 1)
             value == GetFieldObject(SubSeq(tpl, i + 1, close - 1), kwargs)
         IN  IF close = 0 THEN Raised("ValueError")
             ELSE IF value.error # "none" THEN value
             ELSE StrFormat(tpl, close + 1, out \o value.text, kwargs)

DefaultTemplate == DefaultName \o <<" ", "-", " ", "{">> \o Owner \o <<"}">>
Caught == {"KeyError", "ValueError"}

\* VoiceLobbyCog._format_lobby_name for any template
FormatLobbyNameFrom(m, template) ==
    LET safe_template == IF template = <<>> THEN DefaultTemplate ELSE template
        kwargs == (Owner :> DisplayName(m)) @@ (Username :> UserName(m))
        formatted == StrFormat(safe_template, 1, <<>>, kwargs)
    IN  IF formatted.error = "none" THEN Rendered(SanitizeChannelName(formatted.text))
        ELSE IF formatted.error \in Caught
        THEN Rendered(SanitizeChannelName(DefaultName \o <<" ", "-", " ">> \o DisplayName(m)))
        ELSE Raised(formatted.error)

MaxTemplateParts == 4
TemplateParts ==
    {<<"{">>, <<"}">>, Owner, Username, <<"x">>, <<"0">>,
     <<".", "x">>, <<"[", "x", "]">>, <<"[", "0", "]">>}
Templates == {Flatten(ps) : ps \in UNION {[1..n -> TemplateParts] : n \in 0..MaxTemplateParts}}

InitTemplate ==
    /\ cfg = NoConfig
    /\ mode = "serial"
    /\ loc = [m \in Members |-> None]
    /\ channels = <<>>
    /\ nextId = FirstLobbyId
    /\ sessions = <<>>
    /\ tasks = EmptyBag
    /\ pre = NoPre
    /\ overlap = {}
    /\ events = 0
    /\ message = <<>> /\ results = <<>> /\ recognized = <<>> /\ unparsable = {}
    /\ next_match = 1 /\ search_offset = 0 /\ replacements = <<>> /\ located = <<>>
    /\ result = NotReturned
    /\ fn_result = NotCalled
    /\ fn_args \in [called : {TRUE}, member : Humans, template : Templates]

\* Line 152: the name of the lobby about to be created.
FormatName ==
    /\ fn_args.called /\ ~fn_result.called
    /\ LET r == FormatLobbyNameFrom(fn_args.member, fn_args.template)
       IN  fn_result' = [called |-> TRUE, error |-> r.error, name |-> r.text]
    /\ UNCHANGED <<lobby, parser, fn_args>>

\* The lobby name, for every template an administrator can store.
SpecTemplate == InitTemplate /\ [][FormatName]_vars

\* ------------------------------------------------------------ sanitized names
\* _sanitize_channel_name on requested names: short ones over a letter and a
\* blank, and long ones whose characters around position NameMaxLen vary.
MaxShort == 6
MaxTail == 3
NameChars == {"x", " "}
StringsUpTo(n) == UNION {[1..k -> NameChars] : k \in 0..n}
Fill(k) == [i \in 1..k |-> "x"]
RequestedNames ==
    StringsUpTo(MaxShort)
        \cup {Fill(k) \o tail : k \in (NameMaxLen - 2)..NameMaxLen,
                                tail \in StringsUpTo(MaxTail)}

InitSanitize ==
    /\ cfg = NoConfig
    /\ mode = "serial"
    /\ loc = [m \in Members |-> None]
    /\ channels = <<>>
    /\ nextId = FirstLobbyId
    /\ sessions = <<>>
    /\ tasks = EmptyBag
    /\ pre = NoPre
    /\ overlap = {}
    /\ events = 0
    /\ message = <<>> /\ results = <<>> /\ recognized = <<>> /\ unparsable = {}
    /\ next_match = 1 /\ search_offset = 0 /\ replacements = <<>> /\ located = <<>>
    /\ result = NotReturned
    /\ fn_result = NotCalled
    /\ fn_args \in [called : {TRUE}, name : RequestedNames]

\* update_lobby_name line 242: the requested name is sanitized.
Sanitize ==
    /\ fn_args.called /\ ~fn_result.called
    /\ "name" \in DOMAIN fn_args
    /\ fn_result' = [called |-> TRUE, safe_name |-> SanitizeChannelName(fn_args.name)]
    /\ UNCHANGED <<lobby, parser, fn_args>>

\* The name shown in the member's own panel is the sanitized one: renaming to
\* it sanitizes it again.
SanitizeAgain ==
    /\ fn_result.called
    /\ "safe_name" \in DOMAIN fn_result
    /\ fn_args.name # fn_result.safe_name
    /\ fn_args' = [called |-> TRUE, name |-> fn_result.safe_name]
    /\ fn_result' = [called |-> TRUE, safe_name |-> SanitizeChannelName(fn_result.safe_name)]
    /\ UNCHANGED <<lobby, parser>>

SpecSanitize == InitSanitize /\ [][Sanitize \/ SanitizeAgain]_vars

\* ------------------------------------------------------------ properties
DoneTasks == {t \in TaskSet : t.pc = "done"}
SessionCount(owner) == Cardinality(SessionsOf(sessions, owner))

\* C1 as stated: in every reachable state, interleavings at the awaited calls
\* included, there is at most one session record per (guild_id, owner_id).
C1_OneSessionPerOwner ==
    \A o \in Humans : SessionCount(o) <= 1

\* C1 amended: there is at most one session record per (guild_id, owner_id)
\* as long as no two creation sequences of that owner (owner lookup, awaited
\* create_voice_channel, session write) have been in flight at the same time.
C1_OneSessionUnlessCreationsOverlap ==
    \A o \in Humans : o \notin overlap => SessionCount(o) <= 1

\* Two invocations for the same owner are suspended at once, one having written
\* the owner's session and the other moving the owner back to it.
C1_Witness ==
    \E o \in Humans :
        /\ o \notin overlap
        /\ SessionCount(o) = 1
        /\ \E t1, t2 \in BagToSet(Live) :
              /\ t1.user = o /\ t1.pc = "move_new"
              /\ t2.user = o /\ t2.pc = "move_back"

\* ---- what an invocation that has just returned started from (serial dispatch)
PreChans == DOMAIN pre.channels
PreMembersIn(ch) == {m \in Members : pre.loc[m] = ch}
\* The channels of the sessions that map s records for owner.
OwnedBy(s, owner) ==
    {s[i].voice_channel_id : i \in {j \in DOMAIN s : s[j].guild_id = GuildId /\ s[j].owner_id = owner}}
Keys(s) == {s[i].voice_channel_id : i \in DOMAIN s}
RecordOf(s, ch) == s[CHOOSE i \in DOMAIN s : s[i].voice_channel_id = ch]
Dropped(s, ch) == SelectSeq(s, LAMBDA x : x.voice_channel_id # ch)
FeatureOn == cfg.exists /\ cfg.enabled /\ cfg.entry_voice_channel_id # None
\* t handled a non-bot member's actual transition into the entry channel.
EntersEntry(t) ==
    /\ t.kind = "voice" /\ ~IsBot(t.user) /\ FeatureOn
    /\ t.after = cfg.entry_voice_channel_id /\ t.before # t.after
CreatorAdmits(m) ==
    cfg.creator_role_ids = {} \/ (RolesOf(m) \cap cfg.creator_role_ids) # {}
\* The owner is moved to ch, nothing is created, ch stays the owner's one session.
MovedBack(t, ch) ==
    /\ t.made = None /\ Chans \subseteq PreChans
    /\ t.moveTo = ch /\ loc[t.user] = ch
    /\ OwnedBy(sessions, t.user) = {ch} /\ SessionCount(t.user) = 1

\* C2 as stated: an owner of a session whose channel exists who moves into the
\* entry channel, from no channel or from any channel, their own lobby
\* included, is moved into that channel; nothing is created and the owner keeps
\* exactly that one session.
C2_OwnerReentryMovesBack ==
    \A t \in DoneTasks :
        EntersEntry(t) /\ t.failed = {} =>
            \A ch \in OwnedBy(pre.sessions, t.user) \cap PreChans : MovedBack(t, ch)

\* C2 amended: the same, unless the owner came from that very lobby and left no
\* member in it: then step 2 has deleted it before the owner lookup.
C2_OwnerReentryMovesBackUnlessCleaned ==
    \A t \in DoneTasks :
        EntersEntry(t) /\ t.failed = {} =>
            \A ch \in OwnedBy(pre.sessions, t.user) \cap PreChans :
                ~(t.before = ch /\ PreMembersIn(ch) = {}) => MovedBack(t, ch)

\* An owner who left their own, still occupied lobby for the entry channel has
\* been moved back into it.
C2_Witness ==
    \E t \in DoneTasks :
        /\ EntersEntry(t) /\ t.failed = {}
        /\ t.before \in OwnedBy(pre.sessions, t.user) \cap PreChans
        /\ MovedBack(t, t.before)

\* The member was disconnected; nothing was created and no session added.
TurnedAway(t) ==
    /\ t.moveTo = None /\ loc[t.user] = None
    /\ t.made = None /\ Chans \subseteq PreChans

\* A new lobby was created for the member, recorded under its id, and the
\* member moved into it.
GotLobby(t) ==
    /\ t.made # None /\ t.made \notin PreChans /\ t.made \in Chans
    /\ \E i \in DOMAIN sessions :
          sessions[i] = [guild_id |-> GuildId, owner_id |-> t.user, voice_channel_id |-> t.made]
    /\ t.made \notin Keys(pre.sessions)
    /\ loc[t.user] = t.made

EntersLobby(t) ==
    /\ t.kind = "voice" /\ ~IsBot(t.user) /\ FeatureOn
    /\ t.after \in Keys(pre.sessions) /\ t.before # t.after
JoinRefused(t) ==
    /\ t.user # RecordOf(pre.sessions, t.after).owner_id
    /\ cfg.join_role_ids # {}
    /\ (RolesOf(t.user) \cap cfg.join_role_ids) = {}

\* C4: on an actual transition into a tracked channel the handler disconnects
\* the member exactly when the member is not the owner, join_role_ids is not
\* empty and the member holds none of those roles; the owner never is.
C4_JoinPolicy ==
    \A t \in DoneTasks :
        EntersLobby(t) =>
            /\ (t.moveTo = None) <=> JoinRefused(t)
            /\ ~JoinRefused(t) => t.moveTo = NoMove /\ (t.failed = {} => loc = pre.loc)
            /\ JoinRefused(t) /\ t.failed = {} => loc[t.user] = None

\* An owner holding none of the join roles entered their own lobby and stayed.
C4_Witness ==
    \E t \in DoneTasks :
        /\ EntersLobby(t) /\ t.failed = {}
        /\ t.user = RecordOf(pre.sessions, t.after).owner_id
        /\ cfg.join_role_ids # {} /\ (RolesOf(t.user) \cap cfg.join_role_ids) = {}
        /\ loc[t.user] = t.after

\* t handled a non-bot member's departure from a tracked, existing channel.
LeavesLobby(t) ==
    /\ t.kind = "voice" /\ ~IsBot(t.user)
    /\ t.before \in Keys(pre.sessions) /\ t.before \in PreChans
    /\ t.after # t.before

\* C5: when a non-bot member leaves a tracked channel and no non-bot member
\* remains in it (bots do not count), the handler deletes the channel and
\* removes its session record.
C5_CleanupWhenNoHumanLeft ==
    \A t \in DoneTasks :
        LeavesLobby(t) /\ (PreMembersIn(t.before) \cap Humans) = {} /\ t.failed = {} =>
            t.before \notin Chans /\ t.before \notin Keys(sessions)

DeletePcs == {"cleanup_delete", "close_delete"}

\* C6: in the idle cleanup and in the owner's close, the session record is
\* still in the map while the delete call is awaited, and when that call fails
\* the failure is swallowed, the channel stays and the record is removed.
C6_DeleteFailureStillDrops ==
    /\ \A t \in BagToSet(Live) : t.pc \in DeletePcs => t.ch \in Keys(sessions)
    /\ \A t \in DoneTasks :
          (t.failed \cap DeletePcs) # {} =>
              /\ t.delReq \notin Keys(sessions)
              /\ t.delReq \in Chans
              /\ ~(t.outcome = "raised" /\ t.at \in DeletePcs)

\* An idle cleanup whose delete call failed has returned.
C6_Witness ==
    \E t \in DoneTasks :
        /\ t.kind = "voice" /\ "cleanup_delete" \in t.failed
        /\ t.delReq \in Keys(pre.sessions)

\* t is a panel operation of kind k on a tracked channel, by its session's owner.
ByOwner(t, k) ==
    /\ t.kind = k /\ t.ch \in Keys(pre.sessions)
    /\ RecordOf(pre.sessions, t.ch).owner_id = t.user

\* C7: update_lobby_user_limit by the owner with n outside 0..99 is rejected,
\* issues no edit and changes neither channel nor session map; with n in 0..99
\* and the channel existing, the channel's user limit becomes exactly n.
C7_UserLimitValidation ==
    \A t \in DoneTasks :
        ByOwner(t, "limit") =>
            IF t.limit < 0 \/ t.limit > 99
            THEN /\ t.outcome = "bad_limit" /\ t.at = "start"
                 /\ channels = pre.channels /\ sessions = pre.sessions
            ELSE t.ch \in PreChans /\ t.failed = {} =>
                    /\ t.outcome = "limit_set"
                    /\ channels = [pre.channels EXCEPT ![t.ch].user_limit = t.limit]
                    /\ sessions = pre.sessions

\* The owner has reset a limit of 5 to 0 (unlimited).
C7_Witness ==
    \E t \in DoneTasks :
        /\ ByOwner(t, "limit") /\ t.ch \in PreChans
        /\ pre.channels[t.ch].user_limit = 5 /\ t.limit = 0
        /\ channels[t.ch].user_limit = 0

PanelKinds == {"rename", "limit", "close"}

\* C8: rename, set user limit and close are rejected without any effect when
\* a session is recorded for the channel and the acting user is not its owner.
C8_NonOwnerRejected ==
    \A t \in DoneTasks :
        /\ t.kind \in PanelKinds /\ t.ch \in Keys(pre.sessions)
        /\ RecordOf(pre.sessions, t.ch).owner_id # t.user
        => /\ t.outcome = "not_owner" /\ t.at = "start"
           /\ channels = pre.channels /\ sessions = pre.sessions /\ loc = pre.loc

\* Somebody else tried to close an existing, tracked lobby.
C8_Witness ==
    \E t \in DoneTasks :
        /\ t.kind = "close" /\ t.ch \in Keys(pre.sessions) /\ t.ch \in PreChans
        /\ RecordOf(pre.sessions, t.ch).owner_id # t.user

\* C9: close_lobby by the session's owner deletes the channel and removes the
\* session record however many members, bots or not, are in the channel.
C9_CloseRegardlessOfOccupancy ==
    \A t \in DoneTasks :
        ByOwner(t, "close") /\ t.ch \in PreChans /\ t.failed = {} =>
            /\ t.delReq = t.ch /\ t.ch \notin Chans
            /\ t.ch \notin Keys(sessions)
            /\ \A m \in Members : loc[m] # t.ch

\* The owner has closed a lobby with a bot and a non-bot member in it.
C9_Witness ==
    \E t \in DoneTasks :
        /\ ByOwner(t, "close") /\ t.ch \in PreChans /\ t.failed = {}
        /\ (PreMembersIn(t.ch) \cap Bots) # {} /\ (PreMembersIn(t.ch) \cap Humans) # {}
        /\ t.ch \notin Chans

\* C10: with no session recorded for the channel id and the channel existing,
\* rename, set user limit and close act on the channel directly: it is renamed,
\* its limit is changed, or (close) it is deleted.
C10_ActsOnUntrackedChannel ==
    \A t \in DoneTasks :
        t.kind \in PanelKinds /\ t.ch \notin Keys(pre.sessions) /\ t.ch \in PreChans
        /\ t.failed = {} =>
            CASE t.kind = "rename" -> channels[t.ch].name = SanitizeChannelName(t.name)
              [] t.kind = "limit" -> (t.limit \in 0..99 => channels[t.ch].user_limit = t.limit)
              [] t.kind = "close" -> t.ch \notin Chans

\* The requested name is empty or consists only of whitespace.
BlankName(name) == \A i \in DOMAIN name : name[i] \in Whitespace

\* C11: a rename request by the owner whose requested name is empty or only
\* whitespace is rejected: no channel edit is issued and the channel keeps its
\* previous name.
C11_BlankRenameRejected ==
    \A t \in DoneTasks :
        ByOwner(t, "rename") /\ t.ch \in PreChans /\ BlankName(t.name)
        /\ t.failed = {} =>
            /\ t.at = "start"
            /\ channels[t.ch].name = pre.channels[t.ch].name

\* C12: the voice-state listener never raises: whichever awaited platform call
\* fails while an event is handled, the invocation completes normally.
C12_ListenerNeverRaises ==
    \A t \in DoneTasks : t.kind = "voice" => t.outcome # "raised"

CreationPcs == {"create", "move_new", "send_panel"}

\* C13: when the creation sequence for a member ends in a failed call (create
\* channel, move into the new channel, post the panel), the member is in no
\* temporary lobby, no channel made by the attempt exists and the session map
\* holds no record added by it.
C13_FailedCreationLeavesNothing ==
    \A t \in DoneTasks :
        t.kind = "voice" /\ (t.failed \cap CreationPcs) # {} =>
            /\ loc[t.user] \notin Chans
            /\ t.made \notin Chans
            /\ Keys(sessions) \subseteq Keys(pre.sessions)

\* ---- _parse_and_replace_times
Returned == result # NotReturned
Recorded == {i \in DOMAIN located : located[i].outcome = "recorded"}

\* No match is usable: each is empty once stripped, absent from the message, or
\* does not re-parse.
NothingUsable ==
    \A i \in DOMAIN results :
        \/ RStrip(results[i]) = <<>>
        \/ Find(message, RStrip(results[i]), 0) = 0 - 1
        \/ RStrip(results[i]) \in unparsable

\* C14: the returned string is the message, character for character, when the
\* search returned nothing and when every returned match is empty after
\* stripping, not found in the message, or fails re-parsing.
C14_UnchangedWithoutReplacement ==
    Returned /\ NothingUsable => result = message

\* A call has returned after skipping one match that did not re-parse and one
\* that was empty or absent.
C14_Witness ==
    /\ Returned /\ NothingUsable
    /\ \E i, j \in DOMAIN located :
          /\ located[i].outcome = "unparsable"
          /\ located[j].outcome \in {"empty", "not_found"}

\* Where the token of the i-th match starts in the returned string: its start
\* in the message, shifted by what the replacements to its left added.
RECURSIVE Shift(_)
Shift(i) ==
    IF i = 0 THEN 0
    ELSE Shift(i - 1) + (IF i \in Recorded
                         THEN Len(DiscordTs(located[i].clean_match)) - Len(located[i].time_only)
                         ELSE 0)
OutStart(i) == located[i].start_idx + Shift(i - 1)
IsPreposition(str) == \E k \in DOMAIN LeadingPrepositions : Lower(str) = LeadingPrepositions[k]
HasPreposition(str) ==
    \E k \in DOMAIN LeadingPrepositions : StartsWith(Lower(str), LeadingPrepositions[k])
OnlyPunct(str) == \A k \in DOMAIN str : str[k] \in TrailingPunct

\* The i-th match as the message shows it at the located offset: the
\* preposition in front of the replaced span and the punctuation the strip took.
PrepositionOf(i) == Slice(message, located[i].full_start_idx, located[i].start_idx)
PunctOf(i) ==
    Slice(results[i], Len(located[i].clean_match), Len(results[i]))
TokenOf(i) == DiscordTs(located[i].clean_match)

\* The replaced span of the i-th match is the located occurrence of the
\* matched text less its trailing punctuation and one leading preposition.
SpanIsTimeOnly(i) ==
    LET h == located[i]
    IN  /\ Slice(message, h.full_start_idx, h.full_start_idx + Len(h.clean_match)) = h.clean_match
        /\ results[i] = h.clean_match \o PunctOf(i)
        /\ OnlyPunct(PunctOf(i))
        /\ h.clean_match[Len(h.clean_match)] \notin TrailingPunct
        /\ h.clean_match = PrepositionOf(i) \o h.time_only
        /\ IF HasPreposition(h.clean_match) THEN IsPreposition(PrepositionOf(i))
           ELSE PrepositionOf(i) = <<>>

PrepositionBeforeToken(i) ==
    /\ Slice(result, OutStart(i), OutStart(i) + Len(TokenOf(i))) = TokenOf(i)
    /\ Slice(result, OutStart(i) - Len(PrepositionOf(i)), OutStart(i)) = PrepositionOf(i)

PunctAfterToken(i) ==
    LET after == OutStart(i) + Len(TokenOf(i))
    IN  Slice(result, after, after + Len(PunctOf(i))) = PunctOf(i)

\* C15: for every recorded replacement the replaced span is the located
\* occurrence less trailing punctuation and one leading preposition; in the
\* output the preposition stands verbatim right before the token and the
\* stripped punctuation right after it.
C15_OnlyTimePortionReplaced ==
    Returned =>
        \A i \in Recorded :
            SpanIsTimeOnly(i) /\ PrepositionBeforeToken(i) /\ PunctAfterToken(i)

\* The offsets at which sub occurs in str.
Occurrences(str, sub) ==
    {i \in 0..(Len(str) - Len(sub)) : Slice(str, i, i + Len(sub)) = sub}
\* The n-th of them, counted from the left.
NthOccurrence(str, sub, n) ==
    CHOOSE i \in Occurrences(str, sub) :
        Cardinality({j \in Occurrences(str, sub) : j < i}) = n - 1

\* The search returned one phrase as often as the message holds it, and every
\* match was recorded.
SamePhraseThroughout ==
    /\ results # <<>>
    /\ \A i \in DOMAIN results : results[i] = results[1]
    /\ Cardinality(Occurrences(message, results[1])) = Len(results)
    /\ Recorded = DOMAIN results

\* C16: when the search returns the same phrase k times for a message that
\* holds it k times, the i-th replacement is anchored at the i-th occurrence;
\* no occurrence is replaced twice and none is skipped.
C16_SuccessiveOccurrences ==
    Returned /\ SamePhraseThroughout =>
        \A i \in DOMAIN results :
            located[i].full_start_idx = NthOccurrence(message, results[1], i)

\* The i-th match is a phrase the search recognized in the message, and the
\* lookup of its text did find something.
LookedUp(i) ==
    recognized[i] # NotInMessage /\ located[i].outcome \in {"recorded", "unparsable"}

\* C17: for matches returned in left-to-right order, the occurrence the literal
\* lookup lands on is the one the search recognized, never an earlier
\* occurrence of the same characters outside any recognized phrase.
C17_LookupFindsRecognizedSpan ==
    Returned =>
        \A i \in Recorded :
            LookedUp(i) => located[i].full_start_idx = recognized[i]

\* The message with replacements k.. substituted, from offset `from` on, all
\* offsets being offsets of the message.
RECURSIVE Substituted(_, _)
Substituted(k, from) ==
    IF k > Len(replacements) THEN Slice(message, from, Len(message))
    ELSE Slice(message, from, replacements[k][1]) \o replacements[k][3]
         \o Substituted(k + 1, replacements[k][1] + replacements[k][2])

\* C18: the recorded spans lie within the message and each starts at or after
\* the end of the match located before it, so the returned string is the
\* message with all spans substituted at once: everything outside the spans
\* is kept, in order.
C18_SpansDisjointAndApplied ==
    /\ \A k \in DOMAIN replacements :
          /\ 0 <= replacements[k][1]
          /\ replacements[k][1] + replacements[k][2] <= Len(message)
    /\ \A i, j \in Recorded :
          i < j => located[j].start_idx >= located[i].full_start_idx + Len(located[i].clean_match)
    /\ \A k \in 1..(Len(replacements) - 1) :
          replacements[k][1] + replacements[k][2] <= replacements[k + 1][1]
    /\ Returned => result = Substituted(1, 0)

\* Two replacements have been applied, the left one changing the length.
C18_Witness ==
    /\ Returned /\ Len(replacements) = 2
    /\ replacements[1][2] # Len(replacements[1][3])
    /\ result = Substituted(1, 0)

Legacy == IF mode = "restarted" THEN {FirstLobbyId} ELSE {}

\* C19: the session map is empty at process start and only ever gets records
\* for channels created in the current run; for a channel of a previous run
\* no event or operation makes the manager delete it or enforce the join
\* policy on it.
C19_PreviousRunChannelsUnmanaged ==
    /\ events = 0 => sessions = <<>>
    /\ Keys(sessions) \cap Legacy = {}
    /\ \A t \in TaskSet :
          /\ t.delReq \notin Legacy
          /\ t.pc \in DeletePcs => t.ch \notin Legacy
          /\ t.at = "join_kick" => t.after \notin Legacy

\* A member without the join role has joined the previous run's channel and
\* left it empty again: the channel is still there.
C19_Witness ==
    /\ cfg = RestrictedConfig /\ Legacy \subseteq Chans
    /\ \E t \in DoneTasks :
          /\ t.kind = "voice" /\ t.user = "m2" /\ t.before \in Legacy
          /\ \A m \in Members : loc[m] \notin Legacy

\* The channels of the owner's recorded sessions that no longer existed when
\* the invocation started.
StaleOf(owner) == OwnedBy(pre.sessions, owner) \ PreChans

\* C21: a creator-permitted member who enters the entry channel while a session
\* of theirs is recorded for a channel that no longer exists gets a new lobby:
\* once the handler has completed with every call succeeding, the member's one
\* session is keyed by the new channel and the stale id is no key any more.
C21_StaleSessionReplaced ==
    \A t \in DoneTasks :
        EntersEntry(t) /\ CreatorAdmits(t.user) /\ StaleOf(t.user) # {} /\ t.failed = {} =>
            /\ t.outcome = "returned"
            /\ t.made \in Chans \ PreChans
            /\ OwnedBy(sessions, t.user) = {t.made}
            /\ SessionCount(t.user) = 1
            /\ StaleOf(t.user) \cap Keys(sessions) = {}

\* An owner whose lobby channel had been deleted behind the manager's back has
\* re-entered the entry channel and been given a new lobby.
C21_Witness ==
    \E t \in DoneTasks :
        /\ EntersEntry(t) /\ CreatorAdmits(t.user) /\ StaleOf(t.user) # {} /\ t.failed = {}
        /\ loc[t.user] = t.made /\ t.made \in Chans

\* C22: with no configuration, the feature disabled or no entry channel
\* configured, handling a voice-state event disconnects or moves nobody,
\* creates no channel and adds no session; its only possible effect is the
\* cleanup of the tracked channel the member has just left.
C22_FeatureOffOnlyCleansUp ==
    \A t \in DoneTasks :
        t.kind = "voice" /\ ~FeatureOn =>
            /\ t.moveTo = NoMove /\ t.made = None
            /\ t.at \in {"start", "cleanup_delete"}
            /\ loc = pre.loc
            /\ Chans \subseteq PreChans
            /\ \/ sessions = pre.sessions /\ channels = pre.channels
               \/ /\ t.before \in Keys(pre.sessions) /\ t.after # t.before
                  /\ PreMembersIn(t.before) = {}
                  /\ sessions = Dropped(pre.sessions, t.before)
                  /\ \A ch \in PreChans \ {t.before} :
                        ch \in Chans /\ channels[ch] = pre.channels[ch]

\* With the feature switched off, a member left their lobby for the entry
\* channel: the lobby was cleaned up and nothing else happened.
C22_Witness ==
    \E t \in DoneTasks :
        /\ t.kind = "voice" /\ ~IsBot(t.user) /\ ~FeatureOn
        /\ t.after = EntryChannel
        /\ t.before \in Keys(pre.sessions) /\ t.before \notin Chans
        /\ t.delReq = t.before /\ t.failed = {}

\* t handled an event in which the member's channel did not change.
SameChannel(t) == t.kind = "voice" /\ t.before # None /\ t.before = t.after

\* C23: a voice-state event without a change of channel has no effect: no
\* cleanup, no disconnect or move, no creation, session map unchanged, also
\* for a member in the entry channel or in a lobby whose join policy they do
\* not satisfy.
C23_SameChannelNoEffect ==
    \A t \in DoneTasks :
        SameChannel(t) =>
            /\ t.at = "start" /\ t.outcome = "returned"
            /\ t.moveTo = NoMove /\ t.made = None /\ t.delReq = None
            /\ sessions = pre.sessions /\ channels = pre.channels /\ loc = pre.loc

\* A member who does not satisfy the join policy of the lobby they sit in has
\* toggled their voice state.
C23_Witness ==
    \E t \in DoneTasks :
        /\ SameChannel(t) /\ ~IsBot(t.user) /\ FeatureOn
        /\ t.after \in Keys(pre.sessions)
        /\ JoinRefused(t)

\* ---- helpers called on their own
\* C24: when join_role_ids is not empty the overwrites of the new channel deny
\* connect and send to the default role and grant them to each listed role of
\* the guild, whether or not every listed id still resolves; when it is empty
\* there is no overwrite for the default role.
C24_OverwritesMatchJoinPolicy ==
    fn_result.called /\ "join_role_ids" \in DOMAIN fn_args =>
        LET ow == fn_result.overwrites IN
        IF fn_args.join_role_ids # {}
        THEN /\ Everyone \in DOMAIN ow
             /\ ow[Everyone].connect = "deny" /\ ow[Everyone].send_messages = "deny"
             /\ \A r \in fn_args.join_role_ids \cap fn_args.guild_roles :
                   /\ r \in DOMAIN ow
                   /\ ow[r].connect = "allow" /\ ow[r].send_messages = "allow"
        ELSE Everyone \notin DOMAIN ow

\* C25: rendering the lobby name never raises: whatever the template, a name
\* is returned (the rendered one, or the default one after a formatting error).
C25_TemplateNeverRaises ==
    fn_result.called /\ "template" \in DOMAIN fn_args =>
        fn_result.error = "none" /\ fn_result.name # <<>>

\* C30: a sanitized name is a normal form: it is not empty, has at most
\* NameMaxLen characters, neither starts nor ends with whitespace, holds no
\* two whitespace characters in a row, and sanitizing it again returns it.
C30_SanitizeNormalForm ==
    fn_result.called /\ "safe_name" \in DOMAIN fn_result =>
        LET n == fn_result.safe_name IN
        /\ n # <<>>
        /\ Len(n) <= NameMaxLen
        /\ n[1] \notin Whitespace
        /\ n[Len(n)] \notin Whitespace
        /\ \A i \in 1..(Len(n) - 1) : ~(n[i] \in Whitespace /\ n[i + 1] \in Whitespace)
        /\ SanitizeChannelName(n) = n

\* ---- removals and re-entries
\* C26: when every invocation runs to completion before the next one is
\* dispatched, no two records of the session map have the same guild and the
\* same owner, whatever joins, leaves, moves, closes, outside deletions and
\* failed calls have happened.
C26_SerialOneSessionPerOwner ==
    mode = "serial" =>
        \A i, j \in DOMAIN sessions :
            /\ sessions[i].guild_id = sessions[j].guild_id
            /\ sessions[i].owner_id = sessions[j].owner_id
            => i = j

\* An owner has re-entered the entry channel and still has one session.
C26_Witness ==
    /\ mode = "serial"
    /\ \E t \in DoneTasks :
          /\ EntersEntry(t) /\ OwnedBy(pre.sessions, t.user) # {}
          /\ Cardinality({i \in DOMAIN sessions : sessions[i].owner_id = t.user}) = 1

\* The invocation has issued a delete and that call has returned or raised.
PastDelete(t) == t.delReq # None /\ t.pc \notin DeletePcs

\* C27: an invocation that has awaited the delete of a tracked channel does
\* not end with an exception raised by that call, not even when the call fails
\* because another invocation has already deleted the channel, and from then
\* on the channel id is no key of the session map.
C27_InterleavedRemovalsSafe ==
    \A t \in TaskSet :
        PastDelete(t) =>
            /\ t.at \in DeletePcs => t.outcome # "raised"
            /\ t.delReq \notin Keys(sessions)

\* Two invocations have deleted the same channel: the first one's call
\* succeeded and it has gone on, the second one's call failed and it has ended.
C27_Witness ==
    \E t1, t2 \in TaskSet :
        /\ PastDelete(t1) /\ PastDelete(t2) /\ t1.delReq = t2.delReq
        /\ t1.failed \cap DeletePcs = {}
        /\ t2.failed \cap DeletePcs # {} /\ t2.pc = "done"

\* C28: when no call fails, a creator-permitted member's transition into the
\* entry channel ends with the member moved into a channel that the session map
\* records with that member as owner and whose deletion no invocation has
\* requested, also when a cleanup or close of the member's previous lobby is
\* suspended at its delete call meanwhile.
C28_EntryEndsInLiveLobby ==
    \A t \in DoneTasks :
        EntersEntry(t) /\ CreatorAdmits(t.user) /\ t.failed = {} =>
            /\ t.moveTo \in Keys(sessions)
            /\ \A i \in DOMAIN sessions :
                  sessions[i].voice_channel_id = t.moveTo => sessions[i].owner_id = t.user
            /\ \A t2 \in TaskSet : t2.delReq # t.moveTo

\* C29: whenever no invocation is in progress or waiting to start, every
\* channel that the session map records and that still exists has at least one
\* member in it.
C29_NoEmptyTrackedChannelAtRest ==
    (\A t \in TaskSet : t.pc = "done") =>
        \A i \in DOMAIN sessions :
            sessions[i].voice_channel_id \in Chans =>
                \E m \in Members : loc[m] = sessions[i].voice_channel_id

====
